---- MODULE Spec2Model ----
(***************************************************************************)
(* AI_SORT_BIN: the waste-sorting appliance controller.                    *)
(*                                                                         *)
(*   scripts/common/config.py           the cached configuration store     *)
(*   scripts/decision/decision_engine.py  label-routing DecisionEngine     *)
(*   scripts/runtime/inference_policy.py  class-identifier decide_bin      *)
(*   scripts/runtime/state_machine.py   the five-state appliance cycle     *)
(*   scripts/runtime/main.py            the polling loop                   *)
(*                                                                         *)
(* Confidences and thresholds are integers in units of 0.05 (0.60 = 12,    *)
(* 0.70 = 14, 0.75 = 15); the code only compares them, so one unit is the  *)
(* smallest step of the model.  Python values that are not of the expected *)
(* type (None, a non-dict, an unhashable label, ...) are kept as tagged    *)
(* values, and a raised exception is a result [status |-> "raise"].        *)
(***************************************************************************)
EXTENDS Integers, Sequences, FiniteSets, TLC

VARIABLES
    file,             \* content of dataset/dataset_config.json
    cache,            \* the lru_cache of get_config
    engine,           \* the DecisionEngine instance (its __init__ snapshot)
    call,             \* the last direct call of the engine / config API and its result
    state,            \* StateMachine.state
    last_predictions, \* StateMachine.last_predictions
    selected_bin,     \* StateMachine.selected_bin
    pc,               \* position of main()
    ticks,            \* number of run_once calls made by main()
    visited,          \* history: the state after each run_once call that returned
    actuated,         \* history: the arguments of actuator.actuate, in call order
    cycle_calls,      \* history: the collaborator calls made since the machine left IDLE
    detections,       \* input of the inference-policy functions
    policy,           \* conf_min / conf_route given to decide_bin
    outcome           \* result of the last inference-policy call

vars == <<file, cache, engine, call, state, last_predictions, selected_bin,
          pc, ticks, visited, actuated, cycle_calls, detections, policy, outcome>>

configVars  == <<file, cache, engine, call>>
machineVars == <<state, last_predictions, selected_bin, pc, ticks, visited, actuated,
                 cycle_calls>>
policyVars  == <<detections, policy, outcome>>

----------------------------------------------------------------------------
(* Bounds of the model *)

MaxBatch == 2        \* longest prediction batch / detection list given to the engines
MaxDetections == 3   \* longest list given to select_active_detection directly
MaxCoord == 2        \* largest bounding-box coordinate
MaxTicks == 11       \* run_once calls made by main() before the model stops ticking

(* Program constants, in units of 0.05 *)

CONF_MIN == 12
CONF_ROUTE == 15
DEFAULT_THRESHOLD == 14
DEFAULT_UNKNOWN_THRESHOLD == 12
TRASH_BIN == "trash"

----------------------------------------------------------------------------
(* Python values *)

PyNone == [t |-> "None"]
PyInt(i) == [t |-> "int", v |-> i]

Return(v) == [status |-> "return", value |-> v]
Raise(e) == [status |-> "raise", exc |-> e]

NoReason == [tag |-> "None"]
Reason(tag, text) == [tag |-> tag, text |-> text]
ThresholdReason(tag, confidence, threshold) ==
    [tag |-> tag, confidence |-> confidence, threshold |-> threshold]

\* dict.get(key, default) on a map given as a function
DictGet(d, key, default) == IF key \in DOMAIN d THEN d[key] ELSE default

\* the confidences the inputs take: from one step below the lowest threshold of
\* the program and of the configurations to the highest
ConfValues == (CONF_MIN - 1) .. CONF_ROUTE

\* a confidence entry of a detection dict: a number, an absent key, None,
\* or a value that is not a number (a string)
NumConf(c) == [k |-> "num", v |-> c]
MissingConf == [k |-> "missing"]
NoneConf == [k |-> "None"]
StrConf == [k |-> "str"]

\* d.get("confidence", 0.0)
GetConfidence(d) == IF d.confidence = MissingConf THEN NumConf(0) ELSE d.confidence

----------------------------------------------------------------------------
(* scripts/common/config.py *)

MissingKey == "<missing>"        \* the key is absent from the dict
Unhashable == "<unhashable>"     \* a value that cannot be a dict key (a list)

NoFile == [no_file |-> TRUE]
BadJson == [bad_json |-> TRUE]
EmptyCache == [empty |-> TRUE]

\* the configuration of the spec's concrete scenario, with a per-label threshold
\* and a label routed to a bin name that physical_bins does not hold
CfgBase ==
    [labels |-> <<"metal_container", "paper">>,
     routing_map |-> [metal_container |-> "containers_bin",
                      paper |-> "paper_bin"],
     physical_bins |-> [containers_bin |-> 0, landfill_bin |-> 4],
     fallback_bin |-> "landfill_bin",
     confidence_thresholds |-> [default |-> 14, metal_container |-> 15],
     unknown_threshold |-> 12]

\* only the required keys: the optional ones take their defaults
CfgDefaults ==
    [labels |-> <<"metal_container">>,
     routing_map |-> [metal_container |-> "containers_bin"],
     physical_bins |-> [containers_bin |-> 1, landfill_bin |-> 3],
     fallback_bin |-> "landfill_bin"]

\* thresholds without a "default" entry, other bin ids, stricter unknown threshold
CfgStrict ==
    [labels |-> <<"metal_container", "paper">>,
     routing_map |-> [metal_container |-> "metal_bin",
                      paper |-> "paper_bin"],
     physical_bins |-> [metal_bin |-> 2, paper_bin |-> 5, landfill_bin |-> 6],
     fallback_bin |-> "landfill_bin",
     confidence_thresholds |-> [paper |-> 13],
     unknown_threshold |-> 13]

\* the fallback bin is not a physical bin
CfgBadFallback ==
    [labels |-> <<"metal_container">>,
     routing_map |-> [metal_container |-> "containers_bin"],
     physical_bins |-> [containers_bin |-> 0],
     fallback_bin |-> "landfill_bin",
     confidence_thresholds |-> [default |-> 14],
     unknown_threshold |-> 12]

\* a required key is absent
CfgNoFallbackKey ==
    [labels |-> <<"metal_container">>,
     routing_map |-> [metal_container |-> "containers_bin"],
     physical_bins |-> [containers_bin |-> 0, landfill_bin |-> 4]]

ConfigFiles == {CfgBase, CfgDefaults, CfgStrict, CfgBadFallback, CfgNoFallbackKey,
                NoFile, BadJson}

RequiredKeys == {"labels", "routing_map", "physical_bins", "fallback_bin"}

\* get_config: the cached configuration, or the file loaded and validated
get_config(c, f) ==
    IF c # EmptyCache THEN Return(c)
    ELSE IF f = NoFile \/ f = BadJson THEN Raise("ConfigError")
    ELSE IF ~(RequiredKeys \subseteq DOMAIN f) THEN Raise("ConfigError")
    ELSE Return(f)

get_routing_map(cfg) == cfg.routing_map
get_physical_bins(cfg) == cfg.physical_bins
get_fallback_bin(cfg) == cfg.fallback_bin

get_fallback_bin_id(cfg) ==
    IF get_fallback_bin(cfg) \in DOMAIN get_physical_bins(cfg)
    THEN Return(get_physical_bins(cfg)[get_fallback_bin(cfg)])
    ELSE Raise("KeyError")

get_confidence_thresholds(cfg) ==
    IF "confidence_thresholds" \in DOMAIN cfg THEN cfg.confidence_thresholds
    ELSE [default |-> DEFAULT_THRESHOLD]

get_threshold_for_label(cfg, label) ==
    IF label = Unhashable THEN Raise("TypeError")
    ELSE Return(DictGet(get_confidence_thresholds(cfg), label,
                        DictGet(get_confidence_thresholds(cfg), "default",
                                DEFAULT_THRESHOLD)))

get_unknown_threshold(cfg) ==
    IF "unknown_threshold" \in DOMAIN cfg THEN cfg.unknown_threshold
    ELSE DEFAULT_UNKNOWN_THRESHOLD

\* safe_label_to_bin_id: (bin_id, fallback_reason), or the exception it raises
safe_label_to_bin_id(cfg, label) ==
    IF label = Unhashable THEN Raise("TypeError")
    ELSE IF label \notin DOMAIN get_routing_map(cfg)
    THEN IF get_fallback_bin_id(cfg).status = "raise" THEN get_fallback_bin_id(cfg)
         ELSE Return(<<get_fallback_bin_id(cfg).value, Reason("unmapped_label", label)>>)
    ELSE IF get_routing_map(cfg)[label] \notin DOMAIN get_physical_bins(cfg)
    THEN IF get_fallback_bin_id(cfg).status = "raise" THEN get_fallback_bin_id(cfg)
         ELSE Return(<<get_fallback_bin_id(cfg).value,
                       Reason("invalid_bin_name", get_routing_map(cfg)[label])>>)
    ELSE Return(<<get_physical_bins(cfg)[get_routing_map(cfg)[label]], NoReason>>)

----------------------------------------------------------------------------
(* Python's sorted(..., key=..., reverse=True): a stable sort, descending.   *)
(* Keys are tuples of integers compared lexicographically; the result is    *)
(* the sequence of the input's indices in sorted order.                     *)

KeyLess(a, b) ==
    \E i \in 1..Len(a) : a[i] < b[i] /\ \A j \in 1..(i - 1) : a[j] = b[j]

RECURSIVE InsertByKey(_, _, _)
\* index i put behind every index whose key is not less than its own
InsertByKey(sorted, i, keys) ==
    IF sorted = <<>> THEN <<i>>
    ELSE IF KeyLess(keys[Head(sorted)], keys[i]) THEN <<i>> \o sorted
    ELSE <<Head(sorted)>> \o InsertByKey(Tail(sorted), i, keys)

RECURSIVE SortPrefix(_, _)
SortPrefix(keys, n) ==
    IF n = 0 THEN <<>> ELSE InsertByKey(SortPrefix(keys, n - 1), n, keys)

sorted_reverse(keys) == SortPrefix(keys, Len(keys))

----------------------------------------------------------------------------
(* scripts/decision/decision_engine.py *)

\* what the caller hands over as `predictions`
NoneBatch == [kind |-> "None"]
IntBatch(n) == [kind |-> "int", v |-> n]
ListBatch(items) == [kind |-> "list", items |-> items]

NonDict == [dict |-> FALSE]
Prediction(class, confidence) == [dict |-> TRUE, class |-> class, confidence |-> confidence]

\* Python truth value of the argument
Truthy(b) ==
    CASE b.kind = "None" -> FALSE
      [] b.kind = "int" -> b.v # 0
      [] OTHER -> b.items # <<>>

\* the exception sorted(predictions, key=lambda x: x.get("confidence", 0.0)) raises,
\* "" when it returns
SortedByConfidenceRaises(b) ==
    IF b.kind # "list" THEN "TypeError"
    ELSE IF \E i \in 1..Len(b.items) : ~b.items[i].dict THEN "AttributeError"
    ELSE IF Len(b.items) >= 2
            /\ \E i \in 1..Len(b.items) : GetConfidence(b.items[i]).k # "num"
    THEN "TypeError"
    ELSE ""

\* sorted_preds[0] of a batch of dicts
TopPrediction(b) ==
    b.items[Head(sorted_reverse(
        [i \in 1..Len(b.items) |->
            IF GetConfidence(b.items[i]).k = "num"
            THEN <<GetConfidence(b.items[i]).v>> ELSE <<0>>]))]

\* top.get("class", "")
GetClass(d) == IF d.class = MissingKey THEN "" ELSE d.class

\* the outcome of a call together with the lru_cache it leaves behind
Done(result, c) == [result |-> result, cache |-> c]

\* DecisionEngine.__init__: the snapshot of the configuration it keeps
EngineInit(c, f) ==
    LET g == get_config(c, f) IN
    IF g.status = "raise" THEN Done(g, c)
    ELSE IF get_fallback_bin_id(g.value).status = "raise"
    THEN Done(get_fallback_bin_id(g.value), g.value)
    ELSE Done(Return([routing_map |-> get_routing_map(g.value),
                      physical_bins |-> get_physical_bins(g.value),
                      fallback_bin |-> get_fallback_bin(g.value),
                      fallback_bin_id |-> get_fallback_bin_id(g.value).value,
                      thresholds |-> get_confidence_thresholds(g.value),
                      unknown_threshold |-> get_unknown_threshold(g.value)]),
              g.value)

\* `if confidence < self.unknown_threshold`, mutated: the default is hard-coded
BelowDefaultUnknownThreshold(self, confidence) == confidence < DEFAULT_UNKNOWN_THRESHOLD

\* `if confidence < self.unknown_threshold`
BelowUnknownThreshold(self, confidence) == confidence < self.unknown_threshold

\* `if confidence < threshold`, mutated: a confidence equal to the threshold fails
NotAboveClassThreshold(confidence, threshold) == confidence <= threshold

\* `if confidence < threshold`
BelowClassThreshold(confidence, threshold) == confidence < threshold

\* DecisionEngine.decide: the bin id
decide(self, c, f, predictions) ==
    IF ~Truthy(predictions) THEN Done(Return(self.fallback_bin_id), c)
    ELSE IF SortedByConfidenceRaises(predictions) # ""
    THEN Done(Raise(SortedByConfidenceRaises(predictions)), c)
    ELSE
      LET top == TopPrediction(predictions)
          label == GetClass(top)
          confidence == GetConfidence(top)
      IN
      IF confidence.k # "num" THEN Done(Raise("TypeError"), c)
      ELSE IF BelowUnknownThreshold(self, confidence.v)
      THEN Done(Return(self.fallback_bin_id), c)
      ELSE
        LET g == get_config(c, f) IN
        IF g.status = "raise" THEN Done(g, c)
        ELSE
          LET threshold == get_threshold_for_label(g.value, label) IN
          IF threshold.status = "raise" THEN Done(threshold, g.value)
          ELSE IF BelowClassThreshold(confidence.v, threshold.value)
          THEN Done(Return(self.fallback_bin_id), g.value)
          ELSE IF safe_label_to_bin_id(g.value, label).status = "raise"
          THEN Done(safe_label_to_bin_id(g.value, label), g.value)
          ELSE Done(Return(safe_label_to_bin_id(g.value, label).value[1]), g.value)

\* DecisionEngine.decide_with_reason: <<bin id, fallback reason>>
decide_with_reason(self, c, f, predictions) ==
    IF ~Truthy(predictions)
    THEN Done(Return(<<self.fallback_bin_id, Reason("no_predictions", "")>>), c)
    ELSE IF SortedByConfidenceRaises(predictions) # ""
    THEN Done(Raise(SortedByConfidenceRaises(predictions)), c)
    ELSE
      LET top == TopPrediction(predictions)
          label == GetClass(top)
          confidence == GetConfidence(top)
      IN
      IF confidence.k # "num" THEN Done(Raise("TypeError"), c)
      ELSE IF BelowUnknownThreshold(self, confidence.v)
      THEN Done(Return(<<self.fallback_bin_id,
                         ThresholdReason("below_unknown_threshold", confidence.v,
                                         self.unknown_threshold)>>), c)
      ELSE
        LET g == get_config(c, f) IN
        IF g.status = "raise" THEN Done(g, c)
        ELSE
          LET threshold == get_threshold_for_label(g.value, label) IN
          IF threshold.status = "raise" THEN Done(threshold, g.value)
          ELSE IF BelowClassThreshold(confidence.v, threshold.value)
          THEN Done(Return(<<self.fallback_bin_id,
                             ThresholdReason("below_class_threshold", confidence.v,
                                             threshold.value)>>), g.value)
          ELSE Done(safe_label_to_bin_id(g.value, label), g.value)

\* reload_config
reload_config(c) == EmptyCache

----------------------------------------------------------------------------
(* Inputs of the label-routing engine *)

\* "paper" is unmapped, routed to an unknown bin or routed to a physical bin,
\* depending on the configuration
ClassValues == {"metal_container", "paper", MissingKey, Unhashable}
ConfidenceEntries == {NumConf(c) : c \in ConfValues} \cup {MissingConf, NoneConf}
Predictions ==
    {Prediction(l, c) : l \in ClassValues, c \in ConfidenceEntries} \cup {NonDict}

RECURSIVE SeqsUpTo(_, _)
\* the sequences over S of length at most n
SeqsUpTo(S, n) ==
    IF n = 0 THEN {<<>>}
    ELSE LET shorter == SeqsUpTo(S, n - 1)
         IN shorter \cup {Append(s, x) : s \in {t \in shorter : Len(t) = n - 1}, x \in S}

Batches ==
    {NoneBatch, IntBatch(0), IntBatch(5)}
        \cup {ListBatch(s) : s \in SeqsUpTo(Predictions, MaxBatch)}

NotConstructed == [constructed |-> FALSE]
NoCall == [op |-> "none"]

EngineOk(e) == e # NotConstructed

\* safe_label_to_bin_id called on its own: it reads the configuration first
SafeLabelCall(c, f, label) ==
    LET g == get_config(c, f) IN
    IF g.status = "raise" THEN Done(g, c)
    ELSE Done(safe_label_to_bin_id(g.value, label), g.value)

----------------------------------------------------------------------------
(* The state every specification starts the other components in *)

ConfigIdle ==
    /\ cache = EmptyCache
    /\ engine = NotConstructed
    /\ call = NoCall

MachineIdle ==
    /\ state = "IDLE"
    /\ last_predictions = NoneBatch
    /\ selected_bin = PyNone
    /\ pc = "start"
    /\ ticks = 0
    /\ visited = <<>>
    /\ actuated = <<>>
    /\ cycle_calls = <<>>

PolicyIdle ==
    /\ detections = NoneBatch
    /\ policy = [conf_min |-> CONF_MIN, conf_route |-> CONF_ROUTE]
    /\ outcome = NoCall

----------------------------------------------------------------------------
(* EngineSpec: a client of the configuration store and of the DecisionEngine *)

\* decision_engine = DecisionEngine()
Construct ==
    /\ call = NoCall
    /\ engine = NotConstructed
    /\ LET r == EngineInit(cache, file) IN
        /\ engine' = IF r.result.status = "return" THEN r.result.value ELSE engine
        /\ cache' = r.cache
        /\ call' = [op |-> "DecisionEngine", before |-> cache,
                    result |-> IF r.result.status = "return" THEN Return(PyNone)
                               ELSE r.result]
    /\ UNCHANGED <<file, machineVars, policyVars>>

CallDecide ==
    /\ call = NoCall
    /\ EngineOk(engine)
    /\ \E b \in Batches :
        LET r == decide(engine, cache, file, b) IN
        /\ call' = [op |-> "decide", arg |-> b, before |-> cache, result |-> r.result]
        /\ cache' = r.cache
    /\ UNCHANGED <<file, engine, machineVars, policyVars>>

CallDecideWithReason ==
    /\ call = NoCall
    /\ EngineOk(engine)
    /\ \E b \in Batches :
        LET r == decide_with_reason(engine, cache, file, b) IN
        /\ call' = [op |-> "decide_with_reason", arg |-> b, before |-> cache,
                    result |-> r.result]
        /\ cache' = r.cache
    /\ UNCHANGED <<file, engine, machineVars, policyVars>>

CallSafeLabelToBinId ==
    /\ call = NoCall
    /\ \E l \in {"metal_container", "paper", "alien", "", Unhashable} :
        LET r == SafeLabelCall(cache, file, l) IN
        /\ call' = [op |-> "safe_label_to_bin_id", arg |-> l, before |-> cache,
                    result |-> r.result]
        /\ cache' = r.cache
    /\ UNCHANGED <<file, engine, machineVars, policyVars>>

\* the caller goes on after the call
CallReturn ==
    /\ call # NoCall
    /\ call' = NoCall
    /\ UNCHANGED <<file, cache, engine, machineVars, policyVars>>

ReloadConfig ==
    /\ call = NoCall
    /\ cache # EmptyCache
    /\ cache' = reload_config(cache)
    /\ UNCHANGED <<file, engine, call, machineVars, policyVars>>

\* the configuration file is rewritten while the process runs
WriteConfigFile ==
    /\ call = NoCall
    /\ \E f \in ConfigFiles \ {file} : file' = f
    /\ UNCHANGED <<cache, engine, call, machineVars, policyVars>>

EngineInitial ==
    /\ file \in ConfigFiles
    /\ ConfigIdle
    /\ MachineIdle
    /\ PolicyIdle

EngineNext ==
    \/ Construct
    \/ CallDecide
    \/ CallDecideWithReason
    \/ CallSafeLabelToBinId
    \/ CallReturn
    \/ ReloadConfig
    \/ WriteConfigFile

EngineSpec == EngineInitial /\ [][EngineNext]_vars

----------------------------------------------------------------------------
(* scripts/runtime/state_machine.py and scripts/runtime/main.py             *)
(*                                                                         *)
(* main() builds the collaborators, then calls run_once and sleeps, until  *)
(* an exception leaves the loop.  The inference source is the environment: *)
(* predict returns any batch, or raises.                                   *)

\* the collaborator calls of a cycle, as the history records them
PredictCall(result) == [fn |-> "predict", result |-> result]
DecideCall(arg, result) == [fn |-> "decide", arg |-> arg, result |-> result]
ActuateCall(arg) == [fn |-> "actuate", arg |-> arg]

PredictOutcomes == {Return(b) : b \in Batches} \cup {Raise("RuntimeError")}

\* run_once returned: main() goes on to time.sleep(0.1)
Returned(next) ==
    /\ state' = next
    /\ pc' = "sleep"
    /\ ticks' = ticks + 1
    /\ visited' = Append(visited, next)

\* run_once raised: only KeyboardInterrupt is caught in main(), the loop is left
Propagated ==
    /\ pc' = "crashed"
    /\ ticks' = ticks + 1
    /\ UNCHANGED <<state, visited>>

\* decision_engine = DecisionEngine(); state_machine = StateMachine(...)
Startup ==
    /\ pc = "start"
    /\ LET r == EngineInit(cache, file) IN
        /\ engine' = IF r.result.status = "return" THEN r.result.value ELSE engine
        /\ cache' = r.cache
        /\ pc' = IF r.result.status = "return" THEN "tick" ELSE "startup_failed"
    /\ state' = "IDLE"
    /\ last_predictions' = NoneBatch
    /\ selected_bin' = PyNone
    /\ UNCHANGED <<file, call, ticks, visited, actuated, cycle_calls, policyVars>>

\* run_once with `if` in place of `elif`, mutated: _idle falls through to _detect
RunIdleFallsThrough ==
    /\ pc = "tick" /\ ticks < MaxTicks
    /\ state = "IDLE"
    /\ \E b \in Batches :
        /\ last_predictions' = b
        /\ cycle_calls' = Append(cycle_calls, PredictCall(Return(b)))
    /\ Returned("DECIDE")
    /\ UNCHANGED <<configVars, selected_bin, actuated, policyVars>>

\* run_once in IDLE: _idle
RunIdle ==
    /\ pc = "tick" /\ ticks < MaxTicks
    /\ state = "IDLE"
    /\ Returned("DETECT")
    /\ UNCHANGED <<configVars, last_predictions, selected_bin, actuated, cycle_calls,
                   policyVars>>

\* _detect, mutated: predict is called twice and the second batch is stored
RunDetectPredictsTwice ==
    /\ pc = "tick" /\ ticks < MaxTicks
    /\ state = "DETECT"
    /\ \E p \in PredictOutcomes :
        /\ cycle_calls' = cycle_calls \o <<PredictCall(p), PredictCall(p)>>
        /\ \/ /\ p.status = "return"
              /\ last_predictions' = p.value
              /\ Returned("DECIDE")
           \/ /\ p.status = "raise"
              /\ Propagated
              /\ UNCHANGED last_predictions
    /\ UNCHANGED <<configVars, selected_bin, actuated, policyVars>>

\* run_once in DETECT: _detect
RunDetect ==
    /\ pc = "tick" /\ ticks < MaxTicks
    /\ state = "DETECT"
    /\ \E p \in PredictOutcomes :
        /\ cycle_calls' = Append(cycle_calls, PredictCall(p))
        /\ \/ /\ p.status = "return"
              /\ last_predictions' = p.value
              /\ Returned("DECIDE")
           \/ /\ p.status = "raise"
              /\ Propagated
              /\ UNCHANGED last_predictions
    /\ UNCHANGED <<configVars, selected_bin, actuated, policyVars>>

\* run_once in DECIDE: _decide
RunDecide ==
    /\ pc = "tick" /\ ticks < MaxTicks
    /\ state = "DECIDE"
    /\ LET r == decide(engine, cache, file, last_predictions) IN
        /\ cache' = r.cache
        /\ cycle_calls' = Append(cycle_calls, DecideCall(last_predictions, r.result))
        /\ \/ /\ r.result.status = "return"
              /\ selected_bin' = PyInt(r.result.value)
              /\ Returned("ACTUATE")
           \/ /\ r.result.status = "raise"
              /\ Propagated
              /\ UNCHANGED selected_bin
    /\ UNCHANGED <<file, engine, call, last_predictions, actuated, policyVars>>

\* _actuate, mutated: it goes back to IDLE without passing through RESET
RunActuateSkipsReset ==
    /\ pc = "tick" /\ ticks < MaxTicks
    /\ state = "ACTUATE"
    /\ actuated' = Append(actuated, selected_bin)
    /\ cycle_calls' = Append(cycle_calls, ActuateCall(selected_bin))
    /\ Returned("IDLE")
    /\ UNCHANGED <<configVars, last_predictions, selected_bin, policyVars>>

\* run_once in ACTUATE: _actuate
RunActuate ==
    /\ pc = "tick" /\ ticks < MaxTicks
    /\ state = "ACTUATE"
    /\ actuated' = Append(actuated, selected_bin)
    /\ cycle_calls' = Append(cycle_calls, ActuateCall(selected_bin))
    /\ Returned("RESET")
    /\ UNCHANGED <<configVars, last_predictions, selected_bin, policyVars>>

\* run_once in RESET: _reset, the settle delay included
RunReset ==
    /\ pc = "tick" /\ ticks < MaxTicks
    /\ state = "RESET"
    /\ last_predictions' = NoneBatch
    /\ selected_bin' = PyNone
    /\ cycle_calls' = <<>>
    /\ Returned("IDLE")
    /\ UNCHANGED <<configVars, actuated, policyVars>>

\* time.sleep(0.1) in main()
Sleep ==
    /\ pc = "sleep"
    /\ pc' = "tick"
    /\ UNCHANGED <<configVars, state, last_predictions, selected_bin, ticks, visited,
                   actuated, cycle_calls, policyVars>>

\* KeyboardInterrupt while main() sleeps between two run_once calls
InterruptBetweenTicks ==
    /\ pc = "sleep"
    /\ pc' = "interrupted"
    /\ UNCHANGED <<configVars, state, last_predictions, selected_bin, ticks, visited,
                   actuated, cycle_calls, policyVars>>

\* KeyboardInterrupt inside run_once: the handler has run its statements up to,
\* but not including, the assignment of self.state
InterruptInRunOnce ==
    /\ pc = "tick" /\ ticks < MaxTicks
    /\ pc' = "interrupted"
    /\ ticks' = ticks + 1
    /\ \/ /\ state = "DETECT"
          /\ \E b \in Batches :
              /\ last_predictions' = b
              /\ cycle_calls' = Append(cycle_calls, PredictCall(Return(b)))
          /\ UNCHANGED <<selected_bin, actuated, cache>>
       \/ /\ state = "DECIDE"
          /\ LET r == decide(engine, cache, file, last_predictions) IN
              /\ r.result.status = "return"
              /\ selected_bin' = PyInt(r.result.value)
              /\ cache' = r.cache
              /\ cycle_calls' = Append(cycle_calls, DecideCall(last_predictions, r.result))
          /\ UNCHANGED <<last_predictions, actuated>>
       \/ /\ state = "ACTUATE"
          /\ actuated' = Append(actuated, selected_bin)
          /\ cycle_calls' = Append(cycle_calls, ActuateCall(selected_bin))
          /\ UNCHANGED <<last_predictions, selected_bin, cache>>
       \/ /\ state = "RESET"
          /\ last_predictions' = NoneBatch
          /\ selected_bin' = PyNone
          /\ UNCHANGED <<actuated, cache, cycle_calls>>
    /\ UNCHANGED <<file, engine, call, state, visited, policyVars>>

Init ==
    /\ file \in ConfigFiles
    /\ ConfigIdle
    /\ MachineIdle
    /\ PolicyIdle

Next ==
    \/ Startup
    \/ RunIdle
    \/ RunDetect
    \/ RunDecide
    \/ RunActuate
    \/ RunReset
    \/ Sleep
    \/ InterruptBetweenTicks
    \/ InterruptInRunOnce

Spec == Init /\ [][Next]_vars

----------------------------------------------------------------------------
(* scripts/runtime/inference_policy.py *)

Detection(class_id, confidence, bbox) ==
    [dict |-> TRUE, class_id |-> class_id, confidence |-> confidence, bbox |-> bbox]

\* the "bbox" entry of a detection: absent (or None), a sequence of numbers of
\* any length, or four values that are not numbers
MissingBox == [k |-> "missing"]
MalformedBox == [k |-> "malformed"]
Box(b) == [k |-> "seq", v |-> b]

Max(a, b) == IF a >= b THEN a ELSE b

\* _compute_bbox_area, mutated: width and height are not clamped at 0
AreaWithoutClamp(detection) ==
    IF detection.bbox = MissingBox THEN Return(0)
    ELSE IF detection.bbox = MalformedBox THEN Raise("TypeError")
    ELSE IF Len(detection.bbox.v) # 4 THEN Return(0)
    ELSE Return((detection.bbox.v[3] - detection.bbox.v[1])
                * (detection.bbox.v[4] - detection.bbox.v[2]))

\* _compute_bbox_area
_compute_bbox_area(detection) ==
    IF detection.bbox = MissingBox THEN Return(0)
    ELSE IF detection.bbox = MalformedBox THEN Raise("TypeError")
    ELSE IF Len(detection.bbox.v) # 4 THEN Return(0)
    ELSE Return(Max(0, detection.bbox.v[3] - detection.bbox.v[1])
                * Max(0, detection.bbox.v[4] - detection.bbox.v[2]))

RECURSIVE FilterList(_, _)
\* the list comprehension of filter_detections, element by element
FilterList(items, conf_min) ==
    IF items = <<>> THEN Return(<<>>)
    ELSE IF ~Head(items).dict THEN Raise("AttributeError")
    ELSE IF GetConfidence(Head(items)).k # "num" THEN Raise("TypeError")
    ELSE LET rest == FilterList(Tail(items), conf_min) IN
         IF rest.status = "raise" THEN rest
         ELSE IF GetConfidence(Head(items)).v >= conf_min
         THEN Return(<<Head(items)>> \o rest.value)
         ELSE rest

\* filter_detections, mutated: a confidence equal to conf_min is dropped
FilterStrictlyAbove(dets, conf_min) ==
    IF ~Truthy(dets) THEN Return(<<>>)
    ELSE IF dets.kind # "list" THEN Raise("TypeError")
    ELSE FilterList(dets.items, conf_min + 1)

\* filter_detections
filter_detections(dets, conf_min) ==
    IF ~Truthy(dets) THEN Return(<<>>)
    ELSE IF dets.kind # "list" THEN Raise("TypeError")
    ELSE FilterList(dets.items, conf_min)

\* the sort key, mutated: the confidence tie-break is left out
SelectionKeyAreaOnly(d) == <<_compute_bbox_area(d).value>>

\* the sort key of select_active_detection: (area, confidence)
SelectionKey(d) == <<_compute_bbox_area(d).value, GetConfidence(d).v>>

\* select_active_detection on a list of dicts whose confidence is a number or
\* absent: the selected detection, None for an empty list
select_active_detection(items) ==
    IF items = <<>> THEN Return(PyNone)
    ELSE IF Len(items) = 1 THEN Return(items[1])
    ELSE IF \E i \in 1..Len(items) : _compute_bbox_area(items[i]).status = "raise"
    THEN Raise("TypeError")
    ELSE Return(items[Head(sorted_reverse([i \in 1..Len(items) |-> SelectionKey(items[i])]))])

\* the confidence gate of route_detection
BelowRouteThreshold(confidence, conf_route) == confidence < conf_route

\* route_detection, mutated: the class-id checks come before the confidence gate
RouteClassFirst(detection, class_to_bin, conf_route) ==
    IF detection = PyNone THEN Return(<<TRASH_BIN, Reason("no_detection_provided", "")>>)
    ELSE IF GetConfidence(detection).k # "num" THEN Raise("TypeError")
    ELSE IF detection.class_id = MissingKey
    THEN Return(<<TRASH_BIN, Reason("missing_class_id", "")>>)
    ELSE IF detection.class_id = Unhashable THEN Raise("TypeError")
    ELSE IF detection.class_id \notin DOMAIN class_to_bin
    THEN Return(<<TRASH_BIN, Reason("unmapped_class", detection.class_id)>>)
    ELSE IF BelowRouteThreshold(GetConfidence(detection).v, conf_route)
    THEN Return(<<TRASH_BIN, ThresholdReason("confidence_below_route_threshold",
                                             GetConfidence(detection).v, conf_route)>>)
    ELSE Return(<<class_to_bin[detection.class_id], NoReason>>)

\* route_detection: <<bin, fallback_reason>>
route_detection(detection, class_to_bin, conf_route) ==
    IF detection = PyNone THEN Return(<<TRASH_BIN, Reason("no_detection_provided", "")>>)
    ELSE IF GetConfidence(detection).k # "num" THEN Raise("TypeError")
    ELSE IF BelowRouteThreshold(GetConfidence(detection).v, conf_route)
    THEN Return(<<TRASH_BIN, ThresholdReason("confidence_below_route_threshold",
                                             GetConfidence(detection).v, conf_route)>>)
    ELSE IF detection.class_id = MissingKey
    THEN Return(<<TRASH_BIN, Reason("missing_class_id", "")>>)
    ELSE IF detection.class_id = Unhashable THEN Raise("TypeError")
    ELSE IF detection.class_id \notin DOMAIN class_to_bin
    THEN Return(<<TRASH_BIN, Reason("unmapped_class", detection.class_id)>>)
    ELSE Return(<<class_to_bin[detection.class_id], NoReason>>)

\* _summarize_detection: the exception it raises, "" when it returns
_summarize_detection(detection) ==
    IF detection = PyNone THEN ""
    ELSE IF _compute_bbox_area(detection).status = "raise"
    THEN _compute_bbox_area(detection).exc
    ELSE ""

\* _log_decision: the exception it raises, "" when it returns
_log_decision(result) ==
    IF result.all_detections.kind = "int" /\ result.all_detections.v # 0
    THEN "TypeError"
    ELSE _summarize_detection(result.selected_detection)

\* the try block of decide_bin: the record as far as it was filled, the exception
\* that left the block ("" if none), and whether the block returned by itself
DecideBinTry(base, class_to_bin, conf_min, conf_route) ==
    IF base.all_detections = NoneBatch
    THEN LET r == [base EXCEPT !.fallback_reason = Reason("null_detections_input", "")]
         IN [result |-> r, exc |-> _log_decision(r), returned |-> _log_decision(r) = ""]
    ELSE
      LET f == filter_detections(base.all_detections, conf_min) IN
      IF f.status = "raise" THEN [result |-> base, exc |-> f.exc, returned |-> FALSE]
      ELSE
        LET r1 == [base EXCEPT !.filtered_detections = f.value] IN
        IF f.value = <<>>
        THEN LET r == [r1 EXCEPT !.fallback_reason =
                                     Reason("no_detections_above_conf_min", "")]
             IN [result |-> r, exc |-> _log_decision(r), returned |-> _log_decision(r) = ""]
        ELSE
          LET sel == select_active_detection(f.value) IN
          IF sel.status = "raise" THEN [result |-> r1, exc |-> sel.exc, returned |-> FALSE]
          ELSE
            LET r2 == [r1 EXCEPT !.selected_detection = sel.value]
                routed == route_detection(sel.value, class_to_bin, conf_route)
            IN
            IF routed.status = "raise"
            THEN [result |-> r2, exc |-> routed.exc, returned |-> FALSE]
            ELSE [result |-> [r2 EXCEPT !.bin_decision = routed.value[1],
                                        !.fallback_reason = routed.value[2]],
                  exc |-> "", returned |-> FALSE]

\* the except clause of decide_bin
DecideBinExcept(t) ==
    IF t.exc = "" THEN t.result
    ELSE [t.result EXCEPT !.bin_decision = TRASH_BIN,
                          !.fallback_reason = Reason("runtime_error", t.exc)]

\* decide_bin: the decision record, or the exception that leaves the function
decide_bin(dets, class_to_bin, conf_min, conf_route) ==
    LET t == DecideBinTry([all_detections |-> dets,
                           filtered_detections |-> <<>>,
                           selected_detection |-> PyNone,
                           bin_decision |-> TRASH_BIN,
                           fallback_reason |-> NoReason],
                          class_to_bin, conf_min, conf_route)
    IN
    IF t.returned THEN Return(t.result)
    ELSE IF _log_decision(DecideBinExcept(t)) # ""
    THEN Raise(_log_decision(DecideBinExcept(t)))
    ELSE Return(DecideBinExcept(t))

----------------------------------------------------------------------------
(* Inputs of the inference policy *)

ClassToBin == [metal |-> "containers", paper |-> "paper"]
ClassIds == {"metal", "alien", MissingKey}

\* x_min, y_min, x_max, y_max: two boxes of area 1, one of area MaxCoord and
\* one with y_max < y_min
Boxes == {<<0, 0, 1, 1>>, <<1, 0, 2, 1>>, <<0, 0, MaxCoord, 1>>, <<0, 1, MaxCoord, 0>>}
ShortBox == <<0, 0, 1>>

PolicyBoxes == {MissingBox, Box(<<0, 0, 1, 1>>), Box(<<0, 0, MaxCoord, 1>>)}
PolicyConfidences == {NumConf(c) : c \in ConfValues} \cup {MissingConf}

\* entries that are not detections of the expected shape: a non-dict, an
\* unhashable class_id, a confidence that is None or a string, a bbox of four
\* non-numbers, a bbox of three numbers
MalformedDetections ==
    {NonDict,
     Detection(Unhashable, NumConf(CONF_ROUTE), Box(<<0, 0, 1, 1>>)),
     Detection("metal", NoneConf, Box(<<0, 0, 1, 1>>)),
     Detection("metal", StrConf, Box(<<0, 0, 1, 1>>)),
     Detection("metal", NumConf(CONF_ROUTE), MalformedBox),
     Detection("metal", NumConf(CONF_ROUTE), Box(ShortBox))}

PolicyDetections ==
    {Detection(c, x, b) : c \in ClassIds, x \in PolicyConfidences, b \in PolicyBoxes}
        \cup MalformedDetections

PolicyInputs ==
    {NoneBatch, IntBatch(0), IntBatch(5)}
        \cup {ListBatch(s) : s \in SeqsUpTo(PolicyDetections, MaxBatch)}

\* the defaults, a pre-filter that lets everything through, and
\* conf_route below conf_min
PolicySettings ==
    {[conf_min |-> CONF_MIN, conf_route |-> CONF_ROUTE],
     [conf_min |-> 0, conf_route |-> CONF_ROUTE],
     [conf_min |-> CONF_ROUTE, conf_route |-> CONF_MIN]}

SelectBoxes == {MissingBox, Box(ShortBox)} \cup {Box(b) : b \in Boxes}
SelectConfidences == {MissingConf, NumConf(CONF_MIN), NumConf(CONF_ROUTE)}
SelectDetections ==
    {Detection("metal", x, b) : x \in SelectConfidences, b \in SelectBoxes}
SelectInputs == {ListBatch(s) : s \in SeqsUpTo(SelectDetections, MaxDetections)}

----------------------------------------------------------------------------
(* PolicySpec: a caller of decide_bin *)

CallDecideBin ==
    /\ outcome = NoCall
    /\ outcome' = [op |-> "decide_bin",
                   result |-> decide_bin(detections, ClassToBin,
                                         policy.conf_min, policy.conf_route)]
    /\ UNCHANGED <<configVars, machineVars, detections, policy>>

PolicyInitial ==
    /\ file = CfgBase
    /\ ConfigIdle
    /\ MachineIdle
    /\ detections \in PolicyInputs
    /\ policy \in PolicySettings
    /\ outcome = NoCall

PolicyNext == CallDecideBin

PolicySpec == PolicyInitial /\ [][PolicyNext]_vars

----------------------------------------------------------------------------
(* SelectSpec: a caller of select_active_detection *)

CallSelect ==
    /\ outcome = NoCall
    /\ outcome' = [op |-> "select_active_detection",
                   result |-> select_active_detection(detections.items)]
    /\ UNCHANGED <<configVars, machineVars, detections, policy>>

SelectInitial ==
    /\ file = CfgBase
    /\ ConfigIdle
    /\ MachineIdle
    /\ detections \in SelectInputs
    /\ policy = [conf_min |-> CONF_MIN, conf_route |-> CONF_ROUTE]
    /\ outcome = NoCall

SelectNext == CallSelect

SelectSpec == SelectInitial /\ [][SelectNext]_vars

----------------------------------------------------------------------------
(* FilterSpec: a caller of filter_detections *)

\* the caller keeps a reference to the list it hands over: `detections` is that
\* list after the call, outcome.arg what it was before the call
CallFilter ==
    /\ outcome = NoCall
    /\ outcome' = [op |-> "filter_detections", arg |-> detections,
                   result |-> filter_detections(detections, policy.conf_min)]
    /\ UNCHANGED <<configVars, machineVars, detections, policy>>

FilterInitial ==
    /\ file = CfgBase
    /\ ConfigIdle
    /\ MachineIdle
    /\ detections \in PolicyInputs
    /\ policy \in PolicySettings
    /\ outcome = NoCall

FilterNext == CallFilter

FilterSpec == FilterInitial /\ [][FilterNext]_vars

----------------------------------------------------------------------------
(* Properties *)

Range(f) == {f[x] : x \in DOMAIN f}

\* C1 (PolicySpec): decide_bin is total. Every call, whatever `detections`
\* is (None, an empty list, an integer, a list with a non-dict, detections with
\* a missing / None / non-numeric confidence or a malformed bbox), returns a
\* decision record with a non-null bin_decision and raises nothing; a record
\* whose reason is a runtime_error has bin_decision = TRASH_BIN.
C1_DecideBinTotal ==
    outcome.op = "decide_bin" =>
        /\ outcome.result.status = "return"
        /\ outcome.result.value.bin_decision \in {TRASH_BIN} \cup Range(ClassToBin)
        /\ outcome.result.value.fallback_reason.tag = "runtime_error"
               => outcome.result.value.bin_decision = TRASH_BIN

\* the configuration a call reads is the one the engine was built from
ConfigUnchanged == EngineInit(call.before, file).result = Return(engine)

\* C2 (EngineSpec): decide and decide_with_reason are total. With the
\* configuration unchanged since the engine was built, every call on None or on
\* a list (entries that are not dicts, confidence missing or None, class label
\* missing or unhashable included) returns a bin id and raises nothing.
C2_EngineTotal ==
    (/\ call.op \in {"decide", "decide_with_reason"}
     /\ call.arg.kind \in {"None", "list"}
     /\ ConfigUnchanged)
        => call.result.status = "return"

\* C3 (Spec): a fault of the decision engine never ends the control loop.
\* Whatever list of detections predict returned, main() is never left by an
\* exception while the cycle is in DECIDE, so the cycle goes on to ACTUATE.
C3_DecideFaultKeepsLoop ==
    (pc = "crashed" /\ last_predictions.kind = "list") => state # "DECIDE"

CycleOrder == <<"DETECT", "DECIDE", "ACTUATE", "RESET", "IDLE">>

\* C4 (Spec): from a fresh StateMachine the run_once calls that return visit
\* DETECT, DECIDE, ACTUATE, RESET, IDLE in that order, again and again, and in
\* IDLE both last_predictions and selected_bin are None.
C4_CycleOrder ==
    /\ \A i \in 1..Len(visited) : visited[i] = CycleOrder[((i - 1) % 5) + 1]
    /\ state = "IDLE" => last_predictions = NoneBatch /\ selected_bin = PyNone

\* C4 witness: two full cycles were run, with an actuation in each
C4_TwoCyclesDone ==
    /\ Len(visited) = 10
    /\ state = "IDLE"
    /\ Len(actuated) = 2

Transitions ==
    {<<"IDLE", "DETECT">>, <<"DETECT", "DECIDE">>, <<"DECIDE", "ACTUATE">>,
     <<"ACTUATE", "RESET">>, <<"RESET", "IDLE">>}

\* a step in which a run_once call returns to main()
RunOnceReturns == ticks' = ticks + 1 /\ pc' = "sleep"

\* C5 (Spec): a run_once call that returns makes exactly one transition, to
\* the successor of the state it started in; no other step changes the state.
C5_OneTransitionPerCall ==
    [][/\ RunOnceReturns => <<state, state'>> \in Transitions
       /\ ~RunOnceReturns => state' = state]_vars

\* C5 witness: a call in the second cycle has returned
C5_CallReturned == pc = "sleep" /\ ticks = 7 /\ state = "DECIDE"

\* every entry of the batch is a dict whose confidence is a number or absent
NumericConfidences(b) ==
    /\ b.kind = "list"
    /\ \A i \in 1..Len(b.items) :
        b.items[i].dict /\ b.items[i].confidence \notin {NoneConf, StrConf}

\* the confidence of entry i, 0.0 when absent
ConfidenceOf(b, i) ==
    IF b.items[i].confidence = MissingConf THEN 0 ELSE b.items[i].confidence.v

\* C6 (EngineSpec): fallback monotonicity. For a non-empty batch whose highest
\* confidence is below the engine's unknown_threshold, whatever the labels,
\* decide returns the fallback bin id and decide_with_reason returns it with a
\* below_unknown_threshold reason; for an empty batch they return the fallback
\* bin id, with the reason no_predictions.
C6_FallbackBelowUnknown ==
    (call.op \in {"decide", "decide_with_reason"} /\ NumericConfidences(call.arg)) =>
        /\ call.arg.items = <<>> =>
              call.result = IF call.op = "decide"
                            THEN Return(engine.fallback_bin_id)
                            ELSE Return(<<engine.fallback_bin_id,
                                          Reason("no_predictions", "")>>)
        /\ (/\ call.arg.items # <<>>
            /\ \A i \in 1..Len(call.arg.items) :
                   ConfidenceOf(call.arg, i) < engine.unknown_threshold) =>
              /\ call.result.status = "return"
              /\ call.op = "decide" => call.result.value = engine.fallback_bin_id
              /\ call.op = "decide_with_reason" =>
                    /\ call.result.value[1] = engine.fallback_bin_id
                    /\ call.result.value[2].tag = "below_unknown_threshold"

\* C6 witness: a batch of two, its top below a raised unknown threshold and with a
\* label that is no dict key, was sent to the fallback bin
C6_LowConfidenceAnyLabel ==
    /\ call.op = "decide_with_reason"
    /\ NumericConfidences(call.arg)
    /\ Len(call.arg.items) = 2
    /\ call.arg.items[1].class = Unhashable
    /\ call.arg.items[1].confidence = NumConf(DEFAULT_UNKNOWN_THRESHOLD)
    /\ call.arg.items[2].confidence = MissingConf
    /\ call.result.status = "return"
    /\ call.result.value[2].tag = "below_unknown_threshold"

\* thresholds[label] if the label has an entry, else thresholds["default"]
ClaimedThreshold(cfg, label) ==
    IF label \in DOMAIN get_confidence_thresholds(cfg)
    THEN get_confidence_thresholds(cfg)[label]
    ELSE get_confidence_thresholds(cfg)["default"]

\* the call reads a loadable configuration in which the top prediction's label is
\* routed to a physical bin and has a threshold (its own or the default)
RoutableTop(cfg, label) ==
    /\ label \in DOMAIN cfg.routing_map
    /\ cfg.routing_map[label] \in DOMAIN cfg.physical_bins
    /\ {label, "default"} \cap DOMAIN get_confidence_thresholds(cfg) # {}

\* C7 (EngineSpec): the threshold comparisons are inclusive. A top prediction
\* whose label is routed to a physical bin gets that bin, with reason None,
\* exactly when its confidence is >= the engine's unknown_threshold and >= the
\* threshold of its label (its own entry, else the default) in the
\* configuration the call reads; otherwise it gets the fallback bin id and a
\* reason.
C7_InclusiveThresholds ==
    (/\ call.op \in {"decide", "decide_with_reason"}
     /\ NumericConfidences(call.arg)
     /\ call.arg.items # <<>>
     /\ get_config(call.before, file).status = "return"
     /\ RoutableTop(get_config(call.before, file).value,
                    GetClass(TopPrediction(call.arg)))) =>
        LET cfg == get_config(call.before, file).value
            label == GetClass(TopPrediction(call.arg))
            confidence == GetConfidence(TopPrediction(call.arg)).v
            passes == /\ confidence >= engine.unknown_threshold
                      /\ confidence >= ClaimedThreshold(cfg, label)
            bin == IF passes THEN cfg.physical_bins[cfg.routing_map[label]]
                   ELSE engine.fallback_bin_id
        IN
        /\ call.result.status = "return"
        /\ call.op = "decide" => call.result.value = bin
        /\ call.op = "decide_with_reason" =>
              /\ call.result.value[1] = bin
              /\ (call.result.value[2] = NoReason) <=> passes

\* C7 witness: a confidence equal to the label's own threshold, above the unknown
\* threshold, was routed to the label's bin
C7_EqualToThresholdRouted ==
    /\ call.op = "decide_with_reason"
    /\ call.arg = ListBatch(<<Prediction("metal_container", NumConf(CONF_ROUTE))>>)
    /\ get_config(call.before, file) = Return(CfgBase)
    /\ ClaimedThreshold(CfgBase, "metal_container") = CONF_ROUTE
    /\ call.result = Return(<<0, NoReason>>)

\* the list s rearranged by the permutation p of its indices
Permuted(s, p) == [i \in 1..Len(s) |-> s[p[i]]]

\* area as the spec gives it: max(0, x_max - x_min) * max(0, y_max - y_min),
\* 0 for a missing box or a box not of length 4
ClaimedArea(d) ==
    IF d.bbox = MissingBox THEN 0
    ELSE IF Len(d.bbox.v) # 4 THEN 0
    ELSE (IF d.bbox.v[3] > d.bbox.v[1] THEN d.bbox.v[3] - d.bbox.v[1] ELSE 0)
         * (IF d.bbox.v[4] > d.bbox.v[2] THEN d.bbox.v[4] - d.bbox.v[2] ELSE 0)

ClaimedConfidence(d) == IF d.confidence = MissingConf THEN 0 ELSE d.confidence.v

\* a call of select_active_detection on a non-empty list without a bbox of four
\* non-numbers
SelectedFrom(items) ==
    /\ outcome.op = "select_active_detection"
    /\ items = detections.items
    /\ items # <<>>
    /\ \A i \in 1..Len(items) : items[i].bbox # MalformedBox

\* C8 as stated (SelectSpec): select_active_detection is independent of the
\* input order: every permutation of the list gives the same detection.
C8_OrderIndependent ==
    SelectedFrom(detections.items) =>
        \A p \in Permutations(1..Len(detections.items)) :
            select_active_detection(Permuted(detections.items, p)) = outcome.result

\* no two different detections of the list have the same area and confidence
NoFullTie(items) ==
    \A i, j \in 1..Len(items) :
        (/\ ClaimedArea(items[i]) = ClaimedArea(items[j])
         /\ ClaimedConfidence(items[i]) = ClaimedConfidence(items[j]))
            => items[i] = items[j]

\* C8 amended (SelectSpec): every permutation of the list gives a detection of
\* the same area and confidence, and the same detection when no two different
\* detections of the list are tied on both area and confidence.
C8_OrderIndependentUpToTies ==
    SelectedFrom(detections.items) =>
        \A p \in Permutations(1..Len(detections.items)) :
            LET other == select_active_detection(Permuted(detections.items, p)) IN
            /\ other.status = "return" /\ outcome.result.status = "return"
            /\ ClaimedArea(other.value) = ClaimedArea(outcome.result.value)
            /\ ClaimedConfidence(other.value) = ClaimedConfidence(outcome.result.value)
            /\ NoFullTie(detections.items) => other = outcome.result

\* C8 witness: of two detections of equal area, the one of higher confidence
\* was selected although it was second in the list
C8_HigherConfidenceSecond ==
    /\ SelectedFrom(detections.items)
    /\ Len(detections.items) = 2
    /\ ClaimedArea(detections.items[1]) = ClaimedArea(detections.items[2])
    /\ ClaimedArea(detections.items[1]) > 0
    /\ ClaimedConfidence(detections.items[1]) < ClaimedConfidence(detections.items[2])
    /\ outcome.result = Return(detections.items[2])

\* C9 (SelectSpec): for a non-empty list select_active_detection returns the
\* element of largest area, of highest confidence among those of largest area,
\* and earliest in the list among those tied on both; for an empty list, None.
C9_LargestAreaThenConfidence ==
    (/\ outcome.op = "select_active_detection"
     /\ \A i \in 1..Len(detections.items) : detections.items[i].bbox # MalformedBox) =>
        IF detections.items = <<>> THEN outcome.result = Return(PyNone)
        ELSE \E i \in 1..Len(detections.items) :
            /\ outcome.result = Return(detections.items[i])
            /\ \A j \in 1..Len(detections.items) :
                LET ai == ClaimedArea(detections.items[i])
                    aj == ClaimedArea(detections.items[j])
                    ci == ClaimedConfidence(detections.items[i])
                    cj == ClaimedConfidence(detections.items[j])
                IN
                /\ aj <= ai
                /\ aj = ai => cj <= ci
                /\ (aj = ai /\ cj = ci /\ j < i) => detections.items[j] = detections.items[i]

\* C9 witness: three detections, the largest area last and a box with
\* y_max < y_min first
C9_LargestAreaLast ==
    /\ SelectedFrom(detections.items)
    /\ Len(detections.items) = 3
    /\ detections.items[1].bbox = Box(<<0, 1, MaxCoord, 0>>)
    /\ detections.items[1].confidence = NumConf(CONF_ROUTE)
    /\ ClaimedArea(detections.items[2]) = 0
    /\ detections.items[2].confidence = NumConf(CONF_MIN)
    /\ ClaimedArea(detections.items[3]) = 1
    /\ detections.items[3].confidence = MissingConf
    /\ outcome.result = Return(detections.items[3])

\* C10 (EngineSpec): the routing lookup never raises. Under every configuration
\* get_config accepts, safe_label_to_bin_id returns (fallback bin id, a reason
\* naming the label) for a label absent from the routing map, (fallback bin
\* id, a reason naming the bin) for a label routed to a bin name absent from
\* physical_bins, and (physical_bins[routing_map[label]], None) otherwise.
C10_LookupNeverRaises ==
    (/\ call.op = "safe_label_to_bin_id"
     /\ call.arg # Unhashable
     /\ get_config(call.before, file).status = "return") =>
        LET cfg == get_config(call.before, file).value IN
        /\ call.result.status = "return"
        /\ call.arg \notin DOMAIN cfg.routing_map =>
              call.result.value =
                  <<cfg.physical_bins[cfg.fallback_bin], Reason("unmapped_label", call.arg)>>
        /\ (/\ call.arg \in DOMAIN cfg.routing_map
            /\ cfg.routing_map[call.arg] \notin DOMAIN cfg.physical_bins) =>
              call.result.value =
                  <<cfg.physical_bins[cfg.fallback_bin],
                    Reason("invalid_bin_name", cfg.routing_map[call.arg])>>
        /\ (/\ call.arg \in DOMAIN cfg.routing_map
            /\ cfg.routing_map[call.arg] \in DOMAIN cfg.physical_bins) =>
              call.result.value =
                  <<cfg.physical_bins[cfg.routing_map[call.arg]], NoReason>>

\* the input is None, or a list of dicts whose confidence is a number or absent
WellFormedDetections(b) ==
    \/ b = NoneBatch
    \/ NumericConfidences(b)

\* the entries of items whose confidence (0.0 when absent) is >= conf_min, in
\* input order
ClaimedFilter(items, conf_min) ==
    LET Keep(d) == ClaimedConfidence(d) >= conf_min IN SelectSeq(items, Keep)

\* C11 (FilterSpec): filter_detections returns the subsequence, in input
\* order, of the detections whose confidence (0.0 when absent) is >= conf_min;
\* None and the empty list give the empty list; the input is left as it was.
C11_FilterKeepsAtLeastConfMin ==
    (outcome.op = "filter_detections" /\ WellFormedDetections(outcome.arg)) =>
        /\ outcome.result =
              IF outcome.arg = NoneBatch THEN Return(<<>>)
              ELSE Return(ClaimedFilter(outcome.arg.items, policy.conf_min))
        /\ detections = outcome.arg

\* C11 witness: of two detections the one below conf_min was dropped and the
\* one equal to conf_min was kept
C11_EqualKeptBelowDropped ==
    /\ outcome.op = "filter_detections"
    /\ NumericConfidences(detections)
    /\ Len(detections.items) = 2
    /\ policy.conf_min = CONF_MIN
    /\ detections.items[1].confidence = NumConf(CONF_MIN - 1)
    /\ detections.items[2].confidence = NumConf(CONF_MIN)
    /\ outcome.result = Return(<<detections.items[2]>>)

\* C12 (PolicySpec): empty filtered set. For None, for the empty list and for a
\* list in which every detection has confidence < conf_min, decide_bin returns
\* a record with bin_decision = TRASH_BIN, selected_detection = None,
\* filtered_detections empty and fallback_reason no_detections_above_conf_min.
C12_EmptyFilteredSetReason ==
    (/\ outcome.op = "decide_bin"
     /\ WellFormedDetections(detections)
     /\ detections # NoneBatch => ClaimedFilter(detections.items, policy.conf_min) = <<>>) =>
        /\ outcome.result.status = "return"
        /\ outcome.result.value.bin_decision = TRASH_BIN
        /\ outcome.result.value.selected_detection = PyNone
        /\ outcome.result.value.filtered_detections = <<>>
        /\ outcome.result.value.fallback_reason = Reason("no_detections_above_conf_min", "")

\* the record describes a confident routing: the selected detection is one of
\* the filtered ones, its confidence is >= conf_route, its class_id is a key
\* of class_to_bin and the bin is the one class_to_bin gives
ConfidentRouting(r, class_to_bin, conf_route) ==
    /\ r.selected_detection # PyNone
    /\ r.selected_detection \in Range(r.filtered_detections)
    /\ ClaimedConfidence(r.selected_detection) >= conf_route
    /\ r.selected_detection.class_id \in DOMAIN class_to_bin
    /\ r.bin_decision = class_to_bin[r.selected_detection.class_id]

\* the reason the routing rules give a selected detection, the confidence gate
\* first
ClaimedReason(d, class_to_bin, conf_route) ==
    IF ClaimedConfidence(d) < conf_route
    THEN ThresholdReason("confidence_below_route_threshold", ClaimedConfidence(d), conf_route)
    ELSE IF d.class_id = MissingKey THEN Reason("missing_class_id", "")
    ELSE IF d.class_id \notin DOMAIN class_to_bin THEN Reason("unmapped_class", d.class_id)
    ELSE NoReason

\* C13 (PolicySpec): in a record decide_bin returns, fallback_reason is None
\* exactly when a confident routing occurred; otherwise bin_decision is
\* TRASH_BIN and there is a reason; for a selected detection that was routed
\* without a fault the reason is confidence_below_route_threshold,
\* missing_class_id or unmapped_class, the confidence gate taken first.
C13_ReasonNoneIffConfident ==
    (outcome.op = "decide_bin" /\ outcome.result.status = "return") =>
        LET r == outcome.result.value IN
        /\ (r.fallback_reason = NoReason)
              <=> ConfidentRouting(r, ClassToBin, policy.conf_route)
        /\ r.fallback_reason # NoReason =>
              /\ r.bin_decision = TRASH_BIN
              /\ r.fallback_reason.tag # ""
        /\ (r.selected_detection # PyNone /\ r.fallback_reason.tag # "runtime_error") =>
              r.fallback_reason =
                  ClaimedReason(r.selected_detection, ClassToBin, policy.conf_route)

\* C13 witness: of two filtered detections the selected one, its confidence equal
\* to conf_route, was routed to the bin of its class with no reason
C13_ConfidentRoutingAtThreshold ==
    /\ outcome.op = "decide_bin"
    /\ outcome.result.status = "return"
    /\ Len(outcome.result.value.filtered_detections) = 2
    /\ outcome.result.value.selected_detection = detections.items[2]
    /\ detections.items[2].confidence = NumConf(policy.conf_route)
    /\ outcome.result.value.bin_decision = "containers"
    /\ outcome.result.value.fallback_reason = NoReason

\* C14 (EngineSpec): a configuration whose fallback_bin is not a key of
\* physical_bins is rejected when it is loaded, so the cache never holds one,
\* and no call of decide, decide_with_reason or safe_label_to_bin_id fails
\* with the KeyError of an unresolvable fallback bin id.
C14_FallbackBinCheckedAtLoad ==
    /\ cache # EmptyCache => cache.fallback_bin \in DOMAIN cache.physical_bins
    /\ call.op \in {"decide", "decide_with_reason", "safe_label_to_bin_id"} =>
          call.result # Raise("KeyError")

\* C15 (Spec): an interrupt takes effect only between ticks. When main() was
\* left by a KeyboardInterrupt every run_once call that started has returned,
\* and the machine is not in RESET with its stored bin already cleared.
C15_InterruptOnlyBetweenTicks ==
    pc = "interrupted" =>
        /\ Len(visited) = ticks
        /\ state = "RESET" => selected_bin # PyNone

\* the engine can be built from the configuration file cfg
Constructible(cfg) == EngineInit(EmptyCache, cfg).result.status = "return"

\* the result of the call op when the engine and the configuration store both
\* hold the one configuration cfg
SingleVersionResult(op, cfg, b) ==
    IF op = "decide"
    THEN decide(EngineInit(EmptyCache, cfg).result.value, cfg, cfg, b).result
    ELSE decide_with_reason(EngineInit(EmptyCache, cfg).result.value, cfg, cfg, b).result

\* C16 (EngineSpec): a decision uses one configuration version. Whatever
\* reloads and file changes came between construction and the call, the result
\* of decide / decide_with_reason is the result the call has when every
\* configuration value is taken from one and the same configuration.
C16_OneConfigurationVersion ==
    call.op \in {"decide", "decide_with_reason"} =>
        \E cfg \in ConfigFiles :
            /\ Constructible(cfg)
            /\ call.result = SingleVersionResult(call.op, cfg, call.arg)

\* the results of decide and of decide_with_reason for the batch of the call,
\* from the state the call was made in
BothResults ==
    [decide |-> decide(engine, call.before, file, call.arg).result,
     decide_with_reason |-> decide_with_reason(engine, call.before, file, call.arg).result]

\* C17 (EngineSpec): decide refines decide_with_reason. For every batch, in
\* every state a call can be made in, decide returns the bin id that is the
\* first component of what decide_with_reason returns (and raises when it
\* raises), and that bin id differs from the engine's fallback bin id only if
\* the reason is None.
C17_DecideMatchesDecideWithReason ==
    call.op \in {"decide", "decide_with_reason"} =>
        /\ call.result = BothResults[call.op]
        /\ BothResults.decide.status = BothResults.decide_with_reason.status
        /\ BothResults.decide.status = "return" =>
              /\ BothResults.decide.value = BothResults.decide_with_reason.value[1]
              /\ BothResults.decide.value # engine.fallback_bin_id =>
                    BothResults.decide_with_reason.value[2] = NoReason

CallOrder == <<"predict", "decide", "actuate">>

\* the number of collaborator calls a cycle has made when run_once is about to
\* be called in each state
CallsMade == [IDLE |-> 0, DETECT |-> 0, DECIDE |-> 1, ACTUATE |-> 2, RESET |-> 3]

\* C18 (Spec): in every cycle predict, decide and actuate are called at most
\* once each and in that order, all three by the time the cycle is in RESET;
\* decide receives the batch this cycle's predict returned and actuate the bin
\* id this cycle's decide returned, and between calls the stored fields hold
\* this cycle's values.
C18_OncePerCycleInOrder ==
    /\ Len(cycle_calls) <= 3
    /\ \A i \in 1..Len(cycle_calls) : cycle_calls[i].fn = CallOrder[i]
    /\ Len(cycle_calls) >= 2 =>
          /\ cycle_calls[1].result.status = "return"
          /\ cycle_calls[2].arg = cycle_calls[1].result.value
    /\ Len(cycle_calls) = 3 =>
          /\ cycle_calls[2].result.status = "return"
          /\ cycle_calls[3].arg = PyInt(cycle_calls[2].result.value)
    /\ pc \in {"tick", "sleep"} =>
          /\ Len(cycle_calls) = CallsMade[state]
          /\ state = "DECIDE" => last_predictions = cycle_calls[1].result.value
          /\ state = "ACTUATE" => selected_bin = PyInt(cycle_calls[2].result.value)

\* C18 witness: the second cycle has made its three calls and actuated a bin
\* other than the one of the first cycle
C18_SecondCycleOwnBin ==
    /\ state = "RESET" /\ pc = "sleep"
    /\ Len(actuated) = 2
    /\ actuated[1] # actuated[2]
    /\ Len(cycle_calls) = 3
    /\ cycle_calls[1].result.value.kind = "list"
    /\ cycle_calls[3].arg = actuated[2]

====
